---- MODULE Spec2Model ----
(***************************************************************************)
(* Model of asmjit's register-allocation context                          *)
(* (src/asmjit/base/compilercontext.cpp): the compile() driver, the        *)
(* unreachable-code sweep, the liveness analysis and the memory-cell       *)
(* store with its offset resolver.                                         *)
(*                                                                         *)
(* Nodes are numbered 1..n in textual order: 1 is the function node, the   *)
(* last but one is the function's end sentinel and the last is the node    *)
(* after it (the stop sentinel of compile()).  0 is the null pointer.      *)
(* A bit-array is the set of the local ids whose bit is set.               *)
(***************************************************************************)
EXTENDS Integers, Sequences, FiniteSets, TLC

(* ------------------------------ bounds -------------------------------- *)
\* Largest number of nodes between the function node and its end sentinel,
\* for a function that may hold dead code ...
MaxBody == 3
\* ... and for a function all of whose instructions can be reached; the
\* liveness analysis also runs on three larger functions given by name
\* (LoopFunction, VisitFunction and TwoJumpFunction, of 5, 3 and 6 nodes).
MaxLiveBody == 4
\* Largest number of virtual registers in _contextVd.
MaxVregs == 2
\* Largest number of tied registers of one node.
MaxTied == 1
\* Largest number of memory cells.
MaxCells == 3
MaxSweepBody == 4
MaxSeeds == 2
MaxTiedAny == 3

NULL == 0

kErrorOk == 0
kErrorNoHeapMemory == 1
\* An opaque error code of the back-end (fetch, annotate, translate).
kErrorBackend == 2
\* What resetLocalId() and resetPhysId() leave in a register.
kInvalidValue == -1
\* What a failing call of the back-end can return.
BackendErrors == {kErrorNoHeapMemory, kErrorBackend}

(* ---------------------------- bit arrays ------------------------------ *)
\* BitArray::setBit / delBit on the set of set bits.
setBit(bits, i) == bits \cup {i}
delBit(bits, i) == bits \ {i}
\* BitArray::delBits(s1): this &= ~s1; the result says whether a bit is left.
delBits(self, s1) == self \ s1
\* BitArray::_addBitsDelSource(s0, s1): this = s0 | s1, s1 &= ~s0; the
\* result says whether s1 kept a bit.  AddBits is the new `this`, DelSource
\* the new `s1`.
AddBits(s0, s1) == s0 \cup s1
DelSource(s0, s1) == s1 \ s0

(* --------------------------- tied registers --------------------------- *)
TiedFlagSets == {{"kRAll"}, {"kWAll"}, {"kRAll", "kWAll"}}

TiedRegs(nv) == [vreg : 0 .. nv - 1, flags : TiedFlagSets]

RECURSIVE SeqsUpTo(_, _)
SeqsUpTo(S, k) ==
  IF k = 0 THEN {<<>>}
  ELSE LET shorter == SeqsUpTo(S, k - 1)
       IN shorter \cup {Append(s, x) : s \in {t \in shorter : Len(t) = k - 1}, x \in S}

\* The tied arrays fetch() can attach to a node: one entry per virtual
\* register.  The entries of such an array commute in the Visit loop, so the
\* arrays are listed in one order only, by register.
TiedArrays(nv) ==
  {t \in SeqsUpTo(TiedRegs(nv), MaxTied) :
     \A i, j \in 1 .. Len(t) : i < j => t[i].vreg < t[j].vreg}

(* ------------------------------ nodes --------------------------------- *)
FuncNode == [type |-> "Func", isJmp |-> FALSE, tied |-> <<>>, target |-> NULL, removable |-> FALSE]
LabelNode == [type |-> "Label", isJmp |-> FALSE, tied |-> <<>>, target |-> NULL, removable |-> FALSE]
SentinelNode == [type |-> "Sentinel", isJmp |-> FALSE, tied |-> <<>>, target |-> NULL, removable |-> FALSE]
InstNode(t) == [type |-> "Inst", isJmp |-> FALSE, tied |-> t, target |-> NULL, removable |-> TRUE]
RetNode == [type |-> "Ret", isJmp |-> FALSE, tied |-> <<>>, target |-> NULL, removable |-> TRUE]
JumpNode(uncond, l) == [type |-> "Jump", isJmp |-> uncond, tied |-> <<>>, target |-> l, removable |-> TRUE]
AlignNode == [type |-> "Align", isJmp |-> FALSE, tied |-> <<>>, target |-> NULL, removable |-> FALSE]

\* What a node that is no label can be, given the labels Ls of the function.
NonLabelNodes(Ls, nv) ==
  {InstNode(t) : t \in TiedArrays(nv)}
    \cup {RetNode}
    \cup {JumpNode(u, l) : u \in BOOLEAN, l \in Ls}

\* The node list with b nodes between the function node and the end
\* sentinel, whose labels are Ls and whose other nodes f gives: node 1 is
\* the function, b + 2 its end, b + 3 the node after it.
NodeList(b, Ls, f) ==
  [i \in 1 .. b + 3 |->
     IF i = 1 THEN FuncNode
     ELSE IF i >= b + 2 THEN SentinelNode
     ELSE IF i \in Ls THEN LabelNode
     ELSE f[i]]

\* The end sentinel of a node list and the node after it.
EndOf(ns) == Len(ns) - 1
StopOf(ns) == Len(ns)

\* A node the function returns from: a ret, or the end sentinel.
IsReturning(ns, i) == ns[i].type = "Ret" \/ i = EndOf(ns)

\* The nodes control can flow to from node i.
Successors(ns, i) ==
  IF IsReturning(ns, i) THEN {}
  ELSE IF ns[i].type = "Jump"
       THEN {ns[i].target} \cup (IF ns[i].isJmp THEN {} ELSE {i + 1})
       ELSE {i + 1}

RECURSIVE ReachFrom(_, _)
ReachFrom(ns, S) ==
  LET T == S \cup UNION {Successors(ns, i) : i \in S}
  IN IF T = S THEN S ELSE ReachFrom(ns, T)

\* fetch() attaches work-data to the nodes reachable from the function node.
Fetched(ns) == ReachFrom(ns, {1})

\* The jumps to label l.
JumpsTo(ns, l) == {i \in 1 .. Len(ns) : ns[i].type = "Jump" /\ ns[i].target = l}

RECURSIVE Perms(_)
Perms(S) ==
  IF S = {} THEN {<<>>}
  ELSE UNION {{<<x>> \o p : p \in Perms(S \ {x})} : x \in S}

(* ------------------------------ state --------------------------------- *)
VARIABLES
  pc,               \* where compile() is: the phase it runs next, or "returned"
  result,           \* what compile() returned
  cursor,           \* the compiler's cursor (NULL once cleared)
  lastError,        \* the compiler's last error
  hasLogger,        \* whether the holder has a logger, as compile() read it
  started,          \* history: the phases compile() has called, in order
  returned,         \* history: what each called phase returned
  nodes,            \* the nodes' type, flags, tied array and jump target
  prev, next,       \* the compiler's doubly linked node list
  hasWorkData,      \* the nodes fetch() attached an RAData to
  labelFrom,        \* AsmLabel::_from: the first jump to the label
  jumpNext,         \* AsmJump::_jumpNext: the next jump to the same label
  numRefs,          \* AsmLabel::_numRefs
  stop,             \* _stop
  unreachableList,  \* _unreachableList
  returningList,    \* _returningList
  vdLength,         \* _contextVd.getLength()
  extraBlock,       \* _extraBlock
  vregLocalId,      \* VirtReg::_localId of the function's registers
  vregPhysId,       \* VirtReg::_physId of the function's registers
  liveness,         \* RAData::liveness of the nodes that have one
  attached,         \* the nodes whose RAData::liveness is not null
  lpc,              \* where livenessAnalysis() is
  node, from, bCur, \* its locals
  ltCur,            \* its stack of LivenessTarget records, top first
  ltUnused,         \* the number of records in its pool
  retPtr,           \* its position in _returningList
  memVarCells,      \* _memVarCells: the variable cells, head of the list first
  memStackCells,    \* _memStackCells: the stack cells, head of the list first
  memVarsUsed,      \* _mem1ByteVarsUsed .. _mem64ByteVarsUsed, by size
  memStackCellsUsed,
  memMaxAlign,
  memVarTotal,
  memStackTotal,
  memAllTotal,
  vregMemCell,      \* VirtReg::_memCell of the registers given a cell, in call order
  zoneCells,        \* the number of cells allocated from _tmpAllocator
  resolved,         \* history: resolveCellOffsets() ran after the last new cell
  stackRequests     \* history: the size and alignment each stack cell was asked with

driverVars == <<pc, result, cursor, lastError, hasLogger, started, returned>>
listVars == <<prev, next, labelFrom, jumpNext, numRefs>>
fetchVars == <<nodes, hasWorkData, stop, unreachableList, returningList, vdLength,
               extraBlock, vregLocalId, vregPhysId>>
liveVars == <<liveness, attached, lpc, node, from, bCur, ltCur, ltUnused, retPtr>>
cellVars == <<memVarCells, memStackCells, memVarsUsed, memStackCellsUsed, memMaxAlign,
              memVarTotal, memStackTotal, memAllTotal, vregMemCell, zoneCells, resolved,
              stackRequests>>

\* The function node (RAContext::getFunc()).
func == 1

(* ------------------------- fetch() (external) -------------------------- *)
\* The chain of jumps a label aggregates, in the order the chain lists them:
\* any order, since the chain is in the order the jumps were created.
RECURSIVE ChainChoices(_, _)
ChainChoices(ns, Ls) ==
  IF Ls = {} THEN {<<>>}
  ELSE LET l == CHOOSE x \in Ls : \A y \in Ls : x <= y
       IN {<<p>> \o c : p \in Perms(JumpsTo(ns, l)), c \in ChainChoices(ns, Ls \ {l})}

LabelsOf(ns) == {i \in 1 .. Len(ns) : ns[i].type = "Label"}

\* The position of label l among the labels, which indexes a chain choice.
LabelIndex(ns, l) == Cardinality({x \in LabelsOf(ns) : x <= l})

\* The seeds fetch() nominates: the nodes after a fetched unconditional jump or ret.
Seeds(ns) ==
  {i \in 2 .. StopOf(ns) - 1 :
     /\ (i - 1) \in Fetched(ns)
     /\ (ns[i - 1].isJmp \/ ns[i - 1].type = "Ret")}

RECURSIVE SortedSeq(_)
SortedSeq(S) ==
  IF S = {} THEN <<>>
  ELSE LET m == CHOOSE x \in S : \A y \in S : x <= y
       IN <<m>> \o SortedSeq(S \ {m})

\* The numbers of virtual registers of the functions compile() is given.
CompileVregs == {0, 1}

\* A node list without dead code: all that control cannot reach is labels
\* (and the sentinels).
NoDeadCode(ns) ==
  \A i \in 2 .. Len(ns) - 2 : i \in ReachFrom(ns, {1}) \/ ns[i].type = "Label"


\* The fetched nodes the function returns from.
Returning(ns) == {i \in Fetched(ns) : IsReturning(ns, i)}

\* livenessAnalysis() asserts that a function with registers has a returning node.
WellFormed(ns, nv) == nv > 0 => Returning(ns) # {}

\* The linked structure of a freshly built node list ns, whose label chains
\* are ch (one sequence of jumps per label, in label order).
FreshList(ns, ch) ==
  LET n == Len(ns)
      chainOf(l) == ch[LabelIndex(ns, l)]
      pos(j) == CHOOSE k \in 1 .. Len(chainOf(ns[j].target)) : chainOf(ns[j].target)[k] = j
  IN [prev |-> [i \in 1 .. n |-> i - 1],
      next |-> [i \in 1 .. n |-> IF i = n THEN NULL ELSE i + 1],
      labelFrom |-> [i \in 1 .. n |->
                      IF ns[i].type = "Label" /\ chainOf(i) # <<>> THEN chainOf(i)[1] ELSE NULL],
      jumpNext |-> [i \in 1 .. n |->
                      IF ns[i].type = "Jump" /\ pos(i) < Len(chainOf(ns[i].target))
                      THEN chainOf(ns[i].target)[pos(i) + 1] ELSE NULL],
      numRefs |-> [i \in 1 .. n |-> IF ns[i].type = "Label" THEN Len(chainOf(i)) ELSE 0]]

(* -------------------- Compiler::removeNode (external) ------------------ *)
\* The chain of label l without jump j.
RECURSIVE Unchain(_, _, _, _)
Unchain(L, l, cur, j) ==
  \* cur is the chain element whose successor is examined (NULL: the head)
  LET succ == IF cur = NULL THEN L.labelFrom[l] ELSE L.jumpNext[cur]
  IN IF succ = NULL THEN L
     ELSE IF succ = j
          THEN IF cur = NULL
               THEN [L EXCEPT !.labelFrom[l] = L.jumpNext[j]]
               ELSE [L EXCEPT !.jumpNext[cur] = L.jumpNext[j]]
          ELSE Unchain(L, l, succ, j)

\* The list L with node n unlinked; a jump also leaves its label's chain.
removeNode(ns, L, n) ==
  LET p == L.prev[n]
      x == L.next[n]
      L1 == [L EXCEPT !.next = [i \in DOMAIN L.next |->
                                 IF i = n THEN NULL ELSE IF i = p THEN x ELSE L.next[i]],
                      !.prev = [i \in DOMAIN L.prev |->
                                 IF i = n THEN NULL ELSE IF i = x THEN p ELSE L.prev[i]]]
  IN IF ns[n].type = "Jump" /\ ns[n].target # NULL
     THEN LET L2 == Unchain(L1, ns[n].target, NULL, n)
          IN [L2 EXCEPT !.numRefs[ns[n].target] = @ - 1]
     ELSE L1

(* ------------------- RAContext::removeUnreachableCode ------------------ *)
\* The run that goes on through the nodes with work-data, up to stp.
RECURSIVE LocateEndAtStop(_, _, _, _)
LocateEndAtStop(L, wd, n, stp) ==
  IF L.next[n] = stp THEN stp ELSE LocateEndAtStop(L, wd, L.next[n], stp)

\* Lines 281-285: the first node at or after n that has work-data, or stp.
RECURSIVE LocateEnd(_, _, _, _)
LocateEnd(L, wd, n, stp) ==
  IF n \in wd THEN n
  ELSE IF L.next[n] = stp THEN stp
  ELSE LocateEnd(L, wd, L.next[n], stp)

\* The removal loop that goes on removing everything after a label.
RECURSIVE RemoveRunPastLabels(_, _, _, _, _)
RemoveRunPastLabels(ns, L, n, end, removeEverything) ==
  LET nxt == L.next[n]
      remove == ns[n].removable \/ removeEverything
      L1 == IF remove THEN removeNode(ns, L, n) ELSE L
  IN IF nxt = end THEN L1 ELSE RemoveRunPastLabels(ns, L1, nxt, end, removeEverything)

\* The removal loop that removes nothing from the first label on.
RECURSIVE RemoveRunUntilLabel(_, _, _, _, _)
RemoveRunUntilLabel(ns, L, n, end, removeEverything) ==
  LET nxt == L.next[n]
      everything == removeEverything /\ ns[n].type # "Label"
      L1 == IF everything THEN removeNode(ns, L, n) ELSE L
  IN IF nxt = end THEN L1 ELSE RemoveRunUntilLabel(ns, L1, nxt, end, everything)

\* Lines 296-314: the removal loop over the run [n, end).
RECURSIVE RemoveRun(_, _, _, _, _)
RemoveRun(ns, L, n, end, removeEverything) ==
  LET nxt == L.next[n]
      everything == removeEverything /\ ~(~ns[n].removable /\ ns[n].type = "Label")
      remove == ns[n].removable \/ everything
      L1 == IF remove THEN removeNode(ns, L, n) ELSE L
  IN IF nxt = end THEN L1 ELSE RemoveRun(ns, L1, nxt, end, everything)

\* Lines 276-319: the loop over the seeds, from the k-th on.
RECURSIVE SweepFrom(_, _, _, _, _, _)
SweepFrom(ns, L, wd, seeds, stp, k) ==
  IF k > Len(seeds) THEN L
  ELSE LET first == seeds[k]
           L1 == IF first # NULL /\ L.prev[first] # NULL /\ first # stp
                 THEN LET end == LocateEnd(L, wd, first, stp)
                      IN IF end # first THEN RemoveRun(ns, L, first, end, TRUE) ELSE L
                 ELSE L
       IN SweepFrom(ns, L1, wd, seeds, stp, k + 1)

(* -------------------------- RAContext::compile ------------------------- *)
\* The order with annotate() called whether or not there is a logger.
PhaseAfterAlwaysAnnotate(phase, logger) ==
  CASE phase = "fetch" -> "removeUnreachableCode"
    [] phase = "removeUnreachableCode" -> "livenessAnalysis"
    [] phase = "livenessAnalysis" -> "hasLogger"
    [] phase = "hasLogger" -> "annotate"
    [] phase = "annotate" -> "translate"
    [] phase = "translate" -> "setCursor"

\* Lines 592-608: the phase compile() calls after `phase` returned kErrorOk.
PhaseAfter(phase, logger) ==
  CASE phase = "fetch" -> "removeUnreachableCode"
    [] phase = "removeUnreachableCode" -> "livenessAnalysis"
    [] phase = "livenessAnalysis" -> "hasLogger"
    [] phase = "hasLogger" -> IF logger THEN "annotate" ELSE "translate"
    [] phase = "annotate" -> "translate"
    [] phase = "translate" -> "setCursor"

\* The error replaced by the one code compile() knows by name.
PropagateAsNoHeapMemory(err) == kErrorNoHeapMemory

\* ASMJIT_PROPAGATE: what compile() returns when a phase returned err # kErrorOk.
Propagate(err) == err

\* A phase returned err to compile().
PhaseReturns(phase, err) ==
  /\ returned' = Append(returned, err)
  /\ IF err = kErrorOk
     THEN /\ pc' = PhaseAfter(phase, hasLogger)
          /\ result' = result
     ELSE /\ pc' = "returned"
          /\ result' = Propagate(err)
  /\ hasLogger' = hasLogger
  /\ cursor' = cursor

\* Lines 584-590: compile(func) is given a function of the compiler's node
\* list and stores _func, _stop = end->getNext() and _extraBlock = end.
Compile ==
  /\ pc = "idle"
  /\ pc' = "fetch"
  /\ \E b \in 0 .. MaxBody, nv \in CompileVregs :
     \E Ls \in SUBSET (2 .. b + 1) :
     \E f \in [(2 .. b + 1) \ Ls -> NonLabelNodes(Ls, nv)] :
     \E ns \in {NodeList(b, Ls, f)} :
          /\ WellFormed(ns, nv)
          /\ \E ch \in ChainChoices(ns, LabelsOf(ns)) :
             \E L \in {FreshList(ns, ch)} :
                  /\ nodes' = ns
                  /\ prev' = L.prev
                  /\ next' = L.next
                  /\ labelFrom' = L.labelFrom
                  /\ jumpNext' = L.jumpNext
                  /\ numRefs' = L.numRefs
                  /\ stop' = StopOf(ns)
                  /\ extraBlock' = EndOf(ns)
  /\ UNCHANGED <<result, cursor, lastError, hasLogger, started, returned>>
  /\ UNCHANGED <<hasWorkData, unreachableList, returningList, vdLength, vregLocalId,
                 vregPhysId>>
  /\ UNCHANGED <<cellVars, liveVars>>

\* The registers of the tied arrays of ns are among the first nv.
UsesOnly(ns, nv) ==
  \A i \in 1 .. Len(ns) : \A k \in 1 .. Len(ns[i].tied) : ns[i].tied[k].vreg < nv

\* Line 592: fetch() fails, or attaches work-data and fills the lists and
\* the register table.
Fetch ==
  /\ pc = "fetch"
  /\ started' = Append(started, "fetch")
  /\ \/ /\ \E err \in BackendErrors : PhaseReturns("fetch", err)
        /\ UNCHANGED <<lastError, listVars, fetchVars, cellVars, liveVars>>
     \/ \E nv \in CompileVregs, rl \in Perms(Returning(nodes)) :
             /\ UsesOnly(nodes, nv)
             /\ WellFormed(nodes, nv)
             /\ hasWorkData' = Fetched(nodes)
             /\ unreachableList' = SortedSeq(Seeds(nodes))
             /\ returningList' = rl
             /\ vdLength' = nv
             /\ vregLocalId' = [i \in 1 .. nv |-> i - 1]
             /\ vregPhysId' = [i \in 1 .. nv |-> kInvalidValue]
             /\ liveness' = [i \in 1 .. Len(nodes) |-> {}]
             /\ PhaseReturns("fetch", kErrorOk)
             /\ UNCHANGED <<nodes, stop, extraBlock, listVars>>
             /\ UNCHANGED <<lastError, attached, lpc, node, from, bCur, ltCur, ltUnused, retPtr>>
             /\ UNCHANGED cellVars

\* Line 593: the whole of removeUnreachableCode().
RemoveUnreachableCode ==
  /\ pc = "removeUnreachableCode"
  /\ started' = Append(started, "removeUnreachableCode")
  /\ LET L == SweepFrom(nodes,
                        [prev |-> prev, next |-> next, labelFrom |-> labelFrom,
                         jumpNext |-> jumpNext, numRefs |-> numRefs],
                        hasWorkData, unreachableList, stop, 1)
     IN /\ prev' = L.prev
        /\ next' = L.next
        /\ labelFrom' = L.labelFrom
        /\ jumpNext' = L.jumpNext
        /\ numRefs' = L.numRefs
  /\ PhaseReturns("removeUnreachableCode", kErrorOk)
  /\ UNCHANGED <<lastError, fetchVars, liveVars, cellVars>>

\* Lines 596-599: compile() asks whether the holder has a logger.
HasLogger ==
  /\ pc = "hasLogger"
  /\ \E logger \in BOOLEAN :
       /\ hasLogger' = logger
       /\ pc' = PhaseAfter("hasLogger", logger)
  /\ UNCHANGED <<result, cursor, lastError, started, returned>>
  /\ UNCHANGED <<listVars, fetchVars, cellVars, liveVars>>

\* Line 600: annotate() (external) succeeds or fails.
Annotate ==
  /\ pc = "annotate"
  /\ started' = Append(started, "annotate")
  /\ \E err \in {kErrorOk} \cup BackendErrors : PhaseReturns("annotate", err)
  /\ UNCHANGED <<lastError, listVars, fetchVars, cellVars, liveVars>>

\* Line 603: translate() (external) succeeds or fails.
Translate ==
  /\ pc = "translate"
  /\ started' = Append(started, "translate")
  /\ \E err \in {kErrorOk} \cup BackendErrors : PhaseReturns("translate", err)
  /\ UNCHANGED <<lastError, listVars, fetchVars, cellVars, liveVars>>

\* Lines 608-610: the cursor is cleared and compile() returns kErrorOk.
SetCursor ==
  /\ pc = "setCursor"
  /\ cursor' = NULL
  /\ result' = kErrorOk
  /\ pc' = "returned"
  /\ UNCHANGED <<lastError, hasLogger, started, returned>>
  /\ UNCHANGED <<listVars, fetchVars, cellVars, liveVars>>

(* -------------------- RAContext::livenessAnalysis ---------------------- *)
kEntityBits == 64

\* The word count without the rounding up.
BLenRoundedDown(n) == n \div kEntityBits

\* Lines 336-337: the number of words of a bit-array.
BLen(n) == (n + kEntityBits - 1) \div kEntityBits

\* Line 386: the write-only test of the Visit loop.
IsWriteOnly(flags) == ("kWAll" \in flags) /\ ~("kRAll" \in flags)

\* The tied loop that leaves a write-only register out of the node's copy.
RECURSIVE VisitTiedKillUnrecorded(_, _, _, _)
VisitTiedKillUnrecorded(tied, i, bTmp, cur) ==
  IF i > Len(tied) THEN [tmp |-> bTmp, cur |-> cur]
  ELSE LET localId == tied[i].vreg
       IN IF IsWriteOnly(tied[i].flags)
          THEN VisitTiedKillUnrecorded(tied, i + 1, delBit(bTmp, localId), delBit(cur, localId))
          ELSE VisitTiedKillUnrecorded(tied, i + 1, setBit(bTmp, localId), setBit(cur, localId))

\* The tied loop in which the first entry of a register has the last word.
RECURSIVE VisitTiedFirstWins(_, _, _, _)
VisitTiedFirstWins(tied, i, bTmp, cur) ==
  IF i > Len(tied) THEN [tmp |-> bTmp, cur |-> cur]
  ELSE LET localId == tied[i].vreg
           r == VisitTiedFirstWins(tied, i + 1, bTmp, cur)
       IN IF IsWriteOnly(tied[i].flags)
          THEN [tmp |-> setBit(r.tmp, localId), cur |-> delBit(r.cur, localId)]
          ELSE [tmp |-> setBit(r.tmp, localId), cur |-> setBit(r.cur, localId)]

\* Lines 379-396: the tied entries from the i-th on applied to the node's
\* copy bTmp and to the propagating set cur.
RECURSIVE VisitTied(_, _, _, _)
VisitTied(tied, i, bTmp, cur) ==
  IF i > Len(tied) THEN [tmp |-> bTmp, cur |-> cur]
  ELSE LET localId == tied[i].vreg
       IN IF IsWriteOnly(tied[i].flags)
          THEN VisitTied(tied, i + 1, setBit(bTmp, localId), delBit(cur, localId))
          ELSE VisitTied(tied, i + 1, setBit(bTmp, localId), setBit(cur, localId))

\* Lines 398-405 and 416-419: where the walk goes after node n was handled.
StepBack(n) ==
  IF nodes[n].type = "Label" THEN [lpc |-> "Target", node |-> n]
  ELSE IF n = func THEN [lpc |-> "Done", node |-> n]
  ELSE IF prev[n] = NULL THEN [lpc |-> "Undefined", node |-> n]
  ELSE [lpc |-> "Visit", node |-> prev[n]]

\* livenessAnalysis() returns kErrorOk to compile().
LivenessReturnsOk ==
  /\ lpc' = "Returned"
  /\ lastError' = lastError
  /\ PhaseReturns("livenessAnalysis", kErrorOk)

\* The failure returned without being recorded in the compiler.
NoMemUnrecorded ==
  /\ lpc' = "Returned"
  /\ lastError' = lastError
  /\ PhaseReturns("livenessAnalysis", kErrorNoHeapMemory)

\* Lines 505-506: an allocation failed; the error is recorded and returned.
NoMem ==
  /\ lpc' = "Returned"
  /\ lastError' = kErrorNoHeapMemory
  /\ PhaseReturns("livenessAnalysis", kErrorNoHeapMemory)

\* Lines 336-357: entry, up to the first Visit.
LivenessEntry ==
  /\ pc = "livenessAnalysis" /\ lpc = "Idle"
  /\ started' = Append(started, "livenessAnalysis")
  /\ IF BLen(vdLength) = 0
     THEN /\ LivenessReturnsOk
          /\ UNCHANGED <<node, from, bCur, ltCur, ltUnused, retPtr>>
     ELSE /\ node' = IF returningList = <<>> THEN NULL ELSE returningList[1]
          /\ from' = NULL
          /\ bCur' = {}
          /\ ltCur' = <<>>
          /\ ltUnused' = 0
          /\ retPtr' = 1
          /\ \E ok \in BOOLEAN :
               IF ok
               THEN /\ lpc' = IF returningList = <<>> THEN "Undefined" ELSE "Visit"
                    /\ UNCHANGED <<pc, result, cursor, lastError, hasLogger, returned>>
               ELSE NoMem
  /\ UNCHANGED <<liveness, attached>>
  /\ UNCHANGED <<listVars, fetchVars, cellVars>>

\* Lines 361-406: one turn of the Visit loop.
Visit ==
  /\ pc = "livenessAnalysis" /\ lpc = "Visit"
  /\ IF node \notin hasWorkData
     THEN /\ lpc' = "Undefined"
          /\ UNCHANGED <<liveness, attached, node, bCur, driverVars>>
     ELSE IF node \in attached
     THEN /\ bCur' = DelSource(liveness[node], bCur)
          /\ lpc' = IF bCur' # {} THEN "Patch" ELSE "Done"
          /\ UNCHANGED <<liveness, attached, node, driverVars>>
     ELSE \E ok \in BOOLEAN :
            IF ok
            THEN LET r == VisitTied(nodes[node].tied, 1, bCur, bCur)
                 IN /\ liveness' = [liveness EXCEPT ![node] = r.tmp]
                    /\ attached' = attached \cup {node}
                    /\ bCur' = r.cur
                    /\ lpc' = StepBack(node).lpc
                    /\ node' = StepBack(node).node
                    /\ UNCHANGED driverVars
            ELSE /\ NoMem
                 /\ started' = started
                 /\ UNCHANGED <<liveness, attached, node, bCur>>
  /\ UNCHANGED <<from, ltCur, ltUnused, retPtr>>
  /\ UNCHANGED <<listVars, fetchVars, cellVars>>

\* The Patch loop that stores the propagating set in place of the union.
PatchOverwrites ==
  /\ pc = "livenessAnalysis" /\ lpc = "Patch"
  /\ IF node \notin hasWorkData \/ node \notin attached
     THEN /\ lpc' = "Undefined"
          /\ UNCHANGED <<liveness, node, bCur>>
     ELSE LET bNode == liveness[node]
          IN /\ liveness' = [liveness EXCEPT ![node] = bCur]
             /\ bCur' = DelSource(bNode, bCur)
             /\ IF bCur' = {}
                THEN lpc' = "Done" /\ node' = node
                ELSE /\ lpc' = IF StepBack(node).lpc = "Visit" THEN "Patch" ELSE StepBack(node).lpc
                     /\ node' = StepBack(node).node
  /\ UNCHANGED <<attached, from, ltCur, ltUnused, retPtr>>
  /\ UNCHANGED <<driverVars, listVars, fetchVars, cellVars>>

\* Lines 410-420: one turn of the Patch loop.
Patch ==
  /\ pc = "livenessAnalysis" /\ lpc = "Patch"
  /\ IF node \notin hasWorkData \/ node \notin attached
     THEN /\ lpc' = "Undefined"
          /\ UNCHANGED <<liveness, node, bCur>>
     ELSE LET bNode == liveness[node]
          IN /\ liveness' = [liveness EXCEPT ![node] = AddBits(bNode, bCur)]
             /\ bCur' = DelSource(bNode, bCur)
             /\ IF bCur' = {}
                THEN lpc' = "Done" /\ node' = node
                ELSE /\ lpc' = IF StepBack(node).lpc = "Visit" THEN "Patch" ELSE StepBack(node).lpc
                     /\ node' = StepBack(node).node
  /\ UNCHANGED <<attached, from, ltCur, ltUnused, retPtr>>
  /\ UNCHANGED <<driverVars, listVars, fetchVars, cellVars>>

\* Lines 438-444: a new record for label n is made current.
PushTarget(n) ==
  /\ ltCur' = <<[node |-> n, from |-> labelFrom[n]]>> \o ltCur
  /\ from' = labelFrom[n]
  /\ lpc' = IF labelFrom[n] = NULL THEN "Undefined" ELSE "Chain"
  /\ UNCHANGED driverVars

\* Lines 423-449: a label was reached.
Target ==
  /\ pc = "livenessAnalysis" /\ lpc = "Target"
  /\ IF numRefs[node] # 0
     THEN IF ltCur = <<>> \/ Head(ltCur).node # node
          THEN IF ltUnused > 0
               THEN /\ ltUnused' = ltUnused - 1
                    /\ PushTarget(node)
               ELSE \E ok \in BOOLEAN :
                      IF ok
                      THEN /\ ltUnused' = ltUnused
                           /\ PushTarget(node)
                      ELSE /\ NoMem
                           /\ started' = started
                           /\ UNCHANGED <<ltUnused, ltCur, from>>
          ELSE /\ from' = Head(ltCur).from
               /\ lpc' = "JumpNext"
               /\ UNCHANGED <<ltUnused, ltCur, driverVars>>
     ELSE /\ lpc' = "Fallthrough"
          /\ UNCHANGED <<ltUnused, ltCur, from, driverVars>>
  /\ UNCHANGED <<liveness, attached, node, bCur, retPtr>>
  /\ UNCHANGED <<listVars, fetchVars, cellVars>>

\* Lines 452-459: the head of the loop over the label's jumps.
Chain ==
  /\ pc = "livenessAnalysis" /\ lpc = "Chain"
  /\ ltCur' = <<[Head(ltCur) EXCEPT !.from = from]>> \o Tail(ltCur)
  /\ bCur' = liveness[node]
  /\ IF from \notin hasWorkData
     THEN lpc' = "Undefined" /\ node' = node
     ELSE IF from \notin attached
          THEN lpc' = "Visit" /\ node' = from
          ELSE lpc' = "JumpNext" /\ node' = node
  /\ UNCHANGED <<liveness, attached, from, ltUnused, retPtr>>
  /\ UNCHANGED <<driverVars, listVars, fetchVars, cellVars>>

\* The chain that never advances.
getJumpNextSame(j) == j

\* Line 468: from->getJumpNext().
getJumpNext(j) == jumpNext[j]

\* Lines 463-478: the jump is patched if the label has more than it, else
\* the next jump is taken, or the record popped.
JumpNext ==
  /\ pc = "livenessAnalysis" /\ lpc = "JumpNext"
  /\ bCur' = delBits(bCur, liveness[from])
  /\ IF bCur' # {}
     THEN /\ node' = from
          /\ lpc' = "Patch"
          /\ UNCHANGED <<from, ltCur, ltUnused>>
     ELSE /\ from' = getJumpNext(from)
          /\ node' = node
          /\ IF from' # NULL
             THEN lpc' = "Chain" /\ UNCHANGED <<ltCur, ltUnused>>
             ELSE /\ lpc' = "Fallthrough"
                  /\ ltCur' = Tail(ltCur)
                  /\ ltUnused' = ltUnused + 1
  /\ UNCHANGED <<liveness, attached, retPtr>>
  /\ UNCHANGED <<driverVars, listVars, fetchVars, cellVars>>

\* Lines 481-487: the label's textual predecessor falls through to it.
Fallthrough ==
  /\ pc = "livenessAnalysis" /\ lpc = "Fallthrough"
  /\ LET p == prev[node]
         b == liveness[node]
     IN IF p = NULL
        THEN lpc' = "Undefined" /\ UNCHANGED <<node, bCur>>
        ELSE /\ node' = p
             /\ IF nodes[p].isJmp \/ p \notin hasWorkData
                THEN lpc' = "Done" /\ bCur' = b
                ELSE IF p \notin attached
                THEN lpc' = "Visit" /\ bCur' = b
                ELSE /\ bCur' = delBits(b, liveness[p])
                     /\ lpc' = IF bCur' # {} THEN "Patch" ELSE "Done"
  /\ UNCHANGED <<liveness, attached, from, ltCur, ltUnused, retPtr>>
  /\ UNCHANGED <<driverVars, listVars, fetchVars, cellVars>>

\* Lines 489-503: back to the pending label, on to the next returning
\* node, or out.
Done ==
  /\ pc = "livenessAnalysis" /\ lpc = "Done"
  /\ IF ltCur # <<>>
     THEN /\ node' = Head(ltCur).node
          /\ from' = Head(ltCur).from
          /\ lpc' = "JumpNext"
          /\ UNCHANGED <<retPtr, driverVars>>
     ELSE IF retPtr < Len(returningList)
     THEN /\ retPtr' = retPtr + 1
          /\ node' = returningList[retPtr + 1]
          /\ lpc' = "Visit"
          /\ UNCHANGED <<from, driverVars>>
     ELSE /\ retPtr' = retPtr + 1
          /\ LivenessReturnsOk
          /\ started' = started
          /\ UNCHANGED <<node, from>>
  /\ UNCHANGED <<liveness, attached, bCur, ltCur, ltUnused>>
  /\ UNCHANGED <<listVars, fetchVars, cellVars>>

LivenessStep ==
  \/ LivenessEntry
  \/ Visit
  \/ Patch
  \/ Target
  \/ Chain
  \/ JumpNext
  \/ Fallthrough
  \/ Done

(* ------------------------------ the cells ------------------------------ *)
\* Lines 121-128: the sizes a variable cell can have.
VarSizes == {1, 2, 4, 8, 16, 32, 64}

\* The sizes, counters and offsets are uint32_t; within the bounds of this
\* model no sum reaches 2^32 and no difference is negative, so they are
\* written as plain integers.

\* Lines 81-96.
BaseContext_getDefaultAlignment(size) ==
  IF size > 32 THEN 64
  ELSE IF size > 16 THEN 32
  ELSE IF size > 8 THEN 16
  ELSE IF size > 4 THEN 8
  ELSE IF size > 2 THEN 4
  ELSE IF size > 1 THEN 2
  ELSE 1

\* Utils::alignTo<uint32_t>(x, alignment), alignment a power of two:
\* (x + (alignment - 1)) & ~(alignment - 1).
alignTo(x, alignment) ==
  LET y == x + (alignment - 1) IN y - (y % alignment)

\* The alignment without the clamp to 64.
StackAlignmentUnclamped(size, alignment) ==
  IF alignment = 0 THEN BaseContext_getDefaultAlignment(size) ELSE alignment

\* Lines 147-151: the alignment _newStackCell gives a cell.
StackAlignment(size, alignment) ==
  LET a == IF alignment = 0 THEN BaseContext_getDefaultAlignment(size) ELSE alignment
  IN IF a > 64 THEN 64 ELSE a

\* Line 154: the size _newStackCell gives a cell.
StackSize(size, alignment) == alignTo(size, StackAlignment(size, alignment))

\* The test that compares the alignments only.
StepsOverByAlignment(cur, size, alignment) == cur.alignment > alignment

\* Line 161: whether the insertion loop steps over cell cur.
StepsOver(cur, size, alignment) ==
  (cur.alignment > alignment) \/ (cur.alignment = alignment /\ cur.size > size)

\* Lines 158-171: the stack-cell list with cell c inserted.
RECURSIVE InsertSorted(_, _)
InsertSorted(cells, c) ==
  IF cells # <<>> /\ StepsOver(Head(cells), c.size, c.alignment)
  THEN <<Head(cells)>> \o InsertSorted(Tail(cells), c)
  ELSE <<c>> \o cells

iMax(a, b) == IF a > b THEN a ELSE b

\* Lines 144-183: _newStackCell(size, alignment); ok says whether the zone
\* had memory for the cell.
StackCellMade(size, alignment, ok) ==
  IF ok
  THEN LET a == StackAlignment(size, alignment)
           sz == StackSize(size, alignment)
           cell == [id |-> zoneCells + 1, size |-> sz, alignment |-> a, offset |-> 0]
       IN /\ zoneCells' = zoneCells + 1
          /\ memStackCells' = InsertSorted(memStackCells, cell)
          /\ memStackCellsUsed' = memStackCellsUsed + 1
          /\ memMaxAlign' = iMax(memMaxAlign, a)
          /\ memStackTotal' = memStackTotal + sz
          /\ lastError' = lastError
          /\ resolved' = FALSE
          /\ stackRequests' = Append(stackRequests,
                                     [id |-> zoneCells + 1, size |-> size, alignment |-> alignment])
  ELSE /\ lastError' = kErrorNoHeapMemory
       /\ UNCHANGED <<zoneCells, memStackCells, memStackCellsUsed, memMaxAlign,
                      memStackTotal, resolved, stackRequests>>

\* The requests _newStackCell is given: a size, and an alignment that is 0
\* or a power of two (asserted at line 153 once 0 and >64 are replaced).
StackSizes == {0, 1, 3, 4, 7, 16, 33, 100}
StackAlignments == {0, 4, 16, 128}

_newStackCell ==
  /\ memStackCellsUsed + Len(memVarCells) < MaxCells
  /\ \E size \in StackSizes, alignment \in StackAlignments, ok \in BOOLEAN :
       StackCellMade(size, alignment, ok)
  /\ UNCHANGED <<memVarCells, memVarsUsed, memVarTotal, memAllTotal, vregMemCell>>
  /\ UNCHANGED <<pc, result, cursor, hasLogger, started, returned>>
  /\ UNCHANGED <<listVars, fetchVars, liveVars>>

\* The virtual registers _newVarCell is given: none has a cell yet (line 99).
VirtRegs ==
  [size : VarSizes, alignment : {0}, isStack : {FALSE}]
    \cup [size : {4, 12}, alignment : {0, 16}, isStack : {TRUE}]

\* Lines 98-141: _newVarCell(vreg).
_newVarCell ==
  /\ memStackCellsUsed + Len(memVarCells) < MaxCells
  /\ \E vreg \in VirtRegs, ok \in BOOLEAN :
       IF vreg.isStack
       THEN /\ StackCellMade(vreg.size, vreg.alignment, ok)
            /\ vregMemCell' = IF ok THEN Append(vregMemCell, zoneCells + 1) ELSE vregMemCell
            /\ UNCHANGED <<memVarCells, memVarsUsed, memVarTotal>>
       ELSE IF ok
       THEN LET cell == [id |-> zoneCells + 1, size |-> vreg.size,
                         alignment |-> vreg.size, offset |-> 0]
            IN /\ zoneCells' = zoneCells + 1
               /\ memVarCells' = <<cell>> \o memVarCells
               /\ memMaxAlign' = iMax(memMaxAlign, vreg.size)
               /\ memVarTotal' = memVarTotal + vreg.size
               /\ memVarsUsed' = [memVarsUsed EXCEPT ![vreg.size] = @ + 1]
               /\ vregMemCell' = Append(vregMemCell, zoneCells + 1)
               /\ resolved' = FALSE
               /\ UNCHANGED <<lastError, memStackCells, memStackCellsUsed, memStackTotal,
                              stackRequests>>
       ELSE /\ lastError' = kErrorNoHeapMemory
            /\ UNCHANGED <<zoneCells, memVarCells, memMaxAlign, memVarTotal, memVarsUsed,
                           vregMemCell, resolved, memStackCells, memStackCellsUsed,
                           memStackTotal, stackRequests>>
  /\ memAllTotal' = memAllTotal
  /\ UNCHANGED <<pc, result, cursor, hasLogger, started, returned>>
  /\ UNCHANGED <<listVars, fetchVars, liveVars>>

(* -------------------- RAContext::resolveCellOffsets -------------------- *)
\* The regions laid out from the smallest size up.
RegionBasesSmallestFirst(used) ==
  LET pos1 == 0
      pos2 == pos1 + used[1]
      pos4 == pos2 + used[2] * 2
      pos8 == pos4 + used[4] * 4
      pos16 == pos8 + used[8] * 8
      pos32 == pos16 + used[16] * 16
      pos64 == pos32 + used[32] * 32
  IN [sz \in VarSizes |->
        CASE sz = 64 -> pos64 [] sz = 32 -> pos32 [] sz = 16 -> pos16 [] sz = 8 -> pos8
          [] sz = 4 -> pos4 [] sz = 2 -> pos2 [] sz = 1 -> pos1]

\* Lines 192-198: where the cells of each size start, given the counters.
RegionBases(used) ==
  LET pos64 == 0
      pos32 == pos64 + used[64] * 64
      pos16 == pos32 + used[32] * 32
      pos8 == pos16 + used[16] * 16
      pos4 == pos8 + used[8] * 8
      pos2 == pos4 + used[4] * 4
      pos1 == pos2 + used[2] * 2
  IN [sz \in VarSizes |->
        CASE sz = 64 -> pos64 [] sz = 32 -> pos32 [] sz = 16 -> pos16 [] sz = 8 -> pos8
          [] sz = 4 -> pos4 [] sz = 2 -> pos2 [] sz = 1 -> pos1]

\* The stack started where the 1-byte cells start.
StackBaseAtPos1(used) == RegionBases(used)[1]

\* Line 200: where the stack cells start.
StackBase(used) == RegionBases(used)[1] + used[1]

\* Lines 214-233: the variable cells, each given the next offset of its size.
RECURSIVE VarOffsets(_, _)
VarOffsets(cells, pos) ==
  IF cells = <<>> THEN <<>>
  ELSE LET c == Head(cells)
       IN <<[c EXCEPT !.offset = pos[c.size]]>>
            \o VarOffsets(Tail(cells), [pos EXCEPT ![c.size] = @ + c.size])

\* Lines 236-260: the stack cells, each put in the gap if it fits there and
\* at stackPos otherwise; g holds gapSize, gapPos, gapAlignment, stackPos
\* and allTotal, done the cells already placed.
RECURSIVE StackOffsets(_, _, _)
StackOffsets(cells, g, done) ==
  IF cells = <<>> THEN [cells |-> done, allTotal |-> g.allTotal]
  ELSE LET c == Head(cells)
       IN IF c.size <= g.gapSize /\ c.alignment <= g.gapAlignment
          THEN StackOffsets(Tail(cells),
                 [g EXCEPT !.gapSize = @ - c.size,
                           !.gapPos = @ - c.size,
                           !.gapAlignment = IF c.alignment < @ THEN c.alignment ELSE @],
                 Append(done, [c EXCEPT !.offset = g.gapPos]))
          ELSE StackOffsets(Tail(cells),
                 [g EXCEPT !.stackPos = @ + c.size,
                           !.allTotal = @ + c.size],
                 Append(done, [c EXCEPT !.offset = g.stackPos]))

\* Lines 186-211: the state of the stack loop when it starts.  The gap is
\* never sized (line 207 drops what alignDiff returns), so gapSize is 0.
StackStart(used, stackCells) ==
  LET stackAlignment == IF stackCells # <<>> THEN Head(stackCells).alignment ELSE 0
      gapSize == 0
      stackPos == StackBase(used) + gapSize
  IN [gapSize |-> gapSize, gapPos |-> stackPos, gapAlignment |-> stackAlignment,
      stackPos |-> stackPos, allTotal |-> stackPos]

\* Lines 185-264: the whole of resolveCellOffsets().
resolveCellOffsets ==
  /\ LET r == StackOffsets(memStackCells, StackStart(memVarsUsed, memStackCells), <<>>)
     IN /\ memVarCells' = VarOffsets(memVarCells, RegionBases(memVarsUsed))
        /\ memStackCells' = r.cells
        /\ memAllTotal' = r.allTotal
  /\ resolved' = TRUE
  /\ UNCHANGED <<memVarsUsed, memStackCellsUsed, memMaxAlign, memVarTotal, memStackTotal,
                 vregMemCell, zoneCells, stackRequests>>
  /\ UNCHANGED <<driverVars, listVars, fetchVars, liveVars>>

(* ------------------------------ the system ----------------------------- *)
\* Lines 56-71 of reset(): the cell store is emptied.
ResetCells ==
  /\ memVarCells = <<>>
  /\ memStackCells = <<>>
  /\ memVarsUsed = [sz \in VarSizes |-> 0]
  /\ memStackCellsUsed = 0
  /\ memMaxAlign = 0
  /\ memVarTotal = 0
  /\ memStackTotal = 0
  /\ memAllTotal = 0
  /\ vregMemCell = <<>>
  /\ zoneCells = 0
  /\ resolved = FALSE
  /\ stackRequests = <<>>

vars == <<driverVars, listVars, fetchVars, liveVars, cellVars>>

Init ==
  /\ pc = "idle"
  /\ result = kErrorOk
  /\ cursor = 1
  /\ lastError = kErrorOk
  /\ hasLogger = FALSE
  /\ started = <<>>
  /\ returned = <<>>
  /\ nodes = <<>>
  /\ prev = <<>>
  /\ next = <<>>
  /\ hasWorkData = {}
  /\ labelFrom = <<>>
  /\ jumpNext = <<>>
  /\ numRefs = <<>>
  /\ stop = NULL
  /\ unreachableList = <<>>
  /\ returningList = <<>>
  /\ vdLength = 0
  /\ extraBlock = NULL
  /\ vregLocalId = <<>>
  /\ vregPhysId = <<>>
  /\ liveness = <<>>
  /\ attached = {}
  /\ lpc = "Idle"
  /\ node = NULL
  /\ from = NULL
  /\ bCur = {}
  /\ ltCur = <<>>
  /\ ltUnused = 0
  /\ retPtr = 0
  /\ ResetCells

Next ==
  \/ Compile
  \/ Fetch
  \/ RemoveUnreachableCode
  \/ LivenessStep
  \/ HasLogger
  \/ Annotate
  \/ Translate
  \/ SetCursor

Spec == Init /\ [][Next]_vars

\* The function `L: jcc T; use v; jmp L; T: jcc L` as nodes 2 to 7: two
\* jumps to L, one of them after a use of v that only the other jump's
\* label reaches.
TwoJumpFunction(v) ==
  NodeList(6, {2, 6},
           [i \in {3, 4, 5, 7} |->
              CASE i = 3 -> JumpNode(FALSE, 6)
                [] i = 4 -> InstNode(<<[vreg |-> v, flags |-> {"kRAll"}]>>)
                [] i = 5 -> JumpNode(TRUE, 2)
                [] i = 7 -> JumpNode(FALSE, 2)])

\* livenessAnalysis() is about to be called on the two-jump function, the
\* chains of its labels in any order.
InitTwoJump ==
  \E nv \in 1 .. MaxVregs :
  \E v \in 0 .. nv - 1 :
  \E ns \in {TwoJumpFunction(v)} :
  \E ch \in ChainChoices(ns, LabelsOf(ns)), rl \in Perms(Returning(ns)) :
  \E L \in {SweepFrom(ns, FreshList(ns, ch), Fetched(ns),
                      SortedSeq(Seeds(ns)), StopOf(ns), 1)} :
       /\ nodes = ns
       /\ prev = L.prev
       /\ next = L.next
       /\ labelFrom = L.labelFrom
       /\ jumpNext = L.jumpNext
       /\ numRefs = L.numRefs
       /\ hasWorkData = Fetched(ns)
       /\ stop = StopOf(ns)
       /\ unreachableList = SortedSeq(Seeds(ns))
       /\ returningList = rl
       /\ vdLength = nv
       /\ extraBlock = EndOf(ns)
       /\ vregLocalId = [i \in 1 .. nv |-> i - 1]
       /\ vregPhysId = [i \in 1 .. nv |-> kInvalidValue]
       /\ liveness = [i \in 1 .. Len(ns) |-> {}]
       /\ pc = "livenessAnalysis"
       /\ result = kErrorOk
       /\ cursor = 1
       /\ lastError = kErrorOk
       /\ hasLogger = FALSE
       /\ started = <<"fetch", "removeUnreachableCode">>
       /\ returned = <<kErrorOk, kErrorOk>>
       /\ attached = {}
       /\ lpc = "Idle"
       /\ node = NULL
       /\ from = NULL
       /\ bCur = {}
       /\ ltCur = <<>>
       /\ ltUnused = 0
       /\ retPtr = 0
       /\ ResetCells

\* livenessAnalysis() on the two-jump function alone.
SpecLiveTwoJump == InitTwoJump /\ [][LivenessStep]_vars

\* livenessAnalysis() alone: compile() has called fetch() and
\* removeUnreachableCode() on a function without dead code, of at most
\* MaxLiveBody nodes, and is about to call livenessAnalysis().
InitLiveSmall ==
  \E b \in 0 .. MaxLiveBody, nv \in 0 .. MaxVregs :
  \E Ls \in SUBSET (2 .. b + 1) :
  \E f \in [(2 .. b + 1) \ Ls -> NonLabelNodes(Ls, nv)] :
  \E ns \in {NodeList(b, Ls, f)} :
       /\ NoDeadCode(ns)
       /\ WellFormed(ns, nv)
       /\ \E ch \in ChainChoices(ns, LabelsOf(ns)), rl \in Perms(Returning(ns)) :
          \E L \in {SweepFrom(ns, FreshList(ns, ch), Fetched(ns),
                              SortedSeq(Seeds(ns)), StopOf(ns), 1)} :
               /\ nodes = ns
               /\ prev = L.prev
               /\ next = L.next
               /\ labelFrom = L.labelFrom
               /\ jumpNext = L.jumpNext
               /\ numRefs = L.numRefs
               /\ hasWorkData = Fetched(ns)
               /\ stop = StopOf(ns)
               /\ unreachableList = SortedSeq(Seeds(ns))
               /\ returningList = rl
               /\ vdLength = nv
               /\ extraBlock = EndOf(ns)
               /\ vregLocalId = [i \in 1 .. nv |-> i - 1]
               /\ vregPhysId = [i \in 1 .. nv |-> kInvalidValue]
               /\ liveness = [i \in 1 .. Len(ns) |-> {}]
       /\ pc = "livenessAnalysis"
       /\ result = kErrorOk
       /\ cursor = 1
       /\ lastError = kErrorOk
       /\ hasLogger = FALSE
       /\ started = <<"fetch", "removeUnreachableCode">>
       /\ returned = <<kErrorOk, kErrorOk>>
       /\ attached = {}
       /\ lpc = "Idle"
       /\ node = NULL
       /\ from = NULL
       /\ bCur = {}
       /\ ltCur = <<>>
       /\ ltUnused = 0
       /\ retPtr = 0
       /\ ResetCells

\* livenessAnalysis() is about to be called on a function of at most
\* MaxLiveBody nodes or on the two-jump function.
InitLive == InitLiveSmall \/ InitTwoJump

SpecLive == InitLive /\ [][LivenessStep]_vars

\* The loop `L: use v; jcc L; def v; ret` as nodes 2 to 6 of a function.
LoopFunction(v) ==
  NodeList(5, {2},
           [i \in {3, 4, 5, 6} |->
              CASE i = 3 -> InstNode(<<[vreg |-> v, flags |-> {"kRAll"}]>>)
                [] i = 4 -> JumpNode(FALSE, 2)
                [] i = 5 -> InstNode(<<[vreg |-> v, flags |-> {"kWAll"}]>>)
                [] i = 6 -> RetNode])

\* livenessAnalysis() is about to be called on the loop function.
InitLoop ==
  \E nv \in 1 .. MaxVregs :
  \E v \in 0 .. nv - 1 :
  \E ns \in {LoopFunction(v)} :
  \E ch \in ChainChoices(ns, LabelsOf(ns)), rl \in Perms(Returning(ns)) :
  \E L \in {SweepFrom(ns, FreshList(ns, ch), Fetched(ns),
                      SortedSeq(Seeds(ns)), StopOf(ns), 1)} :
       /\ nodes = ns
       /\ prev = L.prev
       /\ next = L.next
       /\ labelFrom = L.labelFrom
       /\ jumpNext = L.jumpNext
       /\ numRefs = L.numRefs
       /\ hasWorkData = Fetched(ns)
       /\ stop = StopOf(ns)
       /\ unreachableList = SortedSeq(Seeds(ns))
       /\ returningList = rl
       /\ vdLength = nv
       /\ extraBlock = EndOf(ns)
       /\ vregLocalId = [i \in 1 .. nv |-> i - 1]
       /\ vregPhysId = [i \in 1 .. nv |-> kInvalidValue]
       /\ liveness = [i \in 1 .. Len(ns) |-> {}]
       /\ pc = "livenessAnalysis"
       /\ result = kErrorOk
       /\ cursor = 1
       /\ lastError = kErrorOk
       /\ hasLogger = FALSE
       /\ started = <<"fetch", "removeUnreachableCode">>
       /\ returned = <<kErrorOk, kErrorOk>>
       /\ attached = {}
       /\ lpc = "Idle"
       /\ node = NULL
       /\ from = NULL
       /\ bCur = {}
       /\ ltCur = <<>>
       /\ ltUnused = 0
       /\ retPtr = 0
       /\ ResetCells

\* The tied arrays the Visit loop accepts: up to MaxTiedAny entries in any
\* order, a register any number of times, each with any of the two flags.
TiedArraysAny(nv) ==
  SeqsUpTo([vreg : 0 .. nv - 1, flags : SUBSET {"kRAll", "kWAll"}], MaxTiedAny)

\* The function `inst t; inst reading the registers R` as nodes 2 and 3: the
\* first instruction is visited with R as the propagating set.
VisitFunction(t, R) ==
  NodeList(2, {},
           [i \in {2, 3} |->
              IF i = 2 THEN InstNode(t)
              ELSE InstNode([k \in 1 .. Cardinality(R) |->
                               [vreg |-> SortedSeq(R)[k], flags |-> {"kRAll"}]])])

\* livenessAnalysis() is about to be called on such a function.
InitVisit ==
  \E nv \in 1 .. MaxVregs :
  \E t \in TiedArraysAny(nv), R \in SUBSET (0 .. nv - 1) :
  \E ns \in {VisitFunction(t, R)} :
  \E L \in {FreshList(ns, <<>>)} :
       /\ nodes = ns
       /\ prev = L.prev
       /\ next = L.next
       /\ labelFrom = L.labelFrom
       /\ jumpNext = L.jumpNext
       /\ numRefs = L.numRefs
       /\ hasWorkData = Fetched(ns)
       /\ stop = StopOf(ns)
       /\ unreachableList = <<>>
       /\ returningList = <<EndOf(ns)>>
       /\ vdLength = nv
       /\ extraBlock = EndOf(ns)
       /\ vregLocalId = [i \in 1 .. nv |-> i - 1]
       /\ vregPhysId = [i \in 1 .. nv |-> kInvalidValue]
       /\ liveness = [i \in 1 .. Len(ns) |-> {}]
       /\ pc = "livenessAnalysis"
       /\ result = kErrorOk
       /\ cursor = 1
       /\ lastError = kErrorOk
       /\ hasLogger = FALSE
       /\ started = <<"fetch", "removeUnreachableCode">>
       /\ returned = <<kErrorOk, kErrorOk>>
       /\ attached = {}
       /\ lpc = "Idle"
       /\ node = NULL
       /\ from = NULL
       /\ bCur = {}
       /\ ltCur = <<>>
       /\ ltUnused = 0
       /\ retPtr = 0
       /\ ResetCells

\* livenessAnalysis() on the functions of SpecLive and on those of InitVisit.
SpecLiveVisit == (InitLive \/ InitVisit) /\ [][LivenessStep]_vars

\* livenessAnalysis() on the functions of SpecLive and on the loop function.
SpecLiveLoop == (InitLive \/ InitLoop) /\ [][LivenessStep]_vars

\* What a node given to the sweep can be: an instruction, a directive (not
\* removable), a label or a ret.
SweepNodes == {InstNode(<<>>), AlignNode, LabelNode, RetNode}

\* The seed lists given to the sweep: up to MaxSeeds entries, each null or
\* any node from the function node to stop.
SeedLists(n) == SeqsUpTo({NULL} \cup (1 .. n), MaxSeeds)

\* removeUnreachableCode() alone: compile() has called fetch() and is about
\* to call removeUnreachableCode(), on any work-data and any seed list.  The
\* node list goes on after stop with an instruction of the next function.
InitSweep ==
  \E b \in 0 .. MaxSweepBody :
  \E f \in [2 .. b + 1 -> SweepNodes] :
  \E ns \in {Append(NodeList(b, {}, f), InstNode(<<>>))} :
  \E wd \in SUBSET (2 .. b + 2), seeds \in SeedLists(b + 3) :
  \E L \in {FreshList(ns, [i \in 1 .. Cardinality(LabelsOf(ns)) |-> <<>>])} :
       /\ nodes = ns
       /\ prev = L.prev
       /\ next = L.next
       /\ labelFrom = L.labelFrom
       /\ jumpNext = L.jumpNext
       /\ numRefs = L.numRefs
       /\ hasWorkData = {func} \cup wd
       /\ stop = b + 3
       /\ unreachableList = seeds
       /\ returningList = <<>>
       /\ vdLength = 0
       /\ extraBlock = b + 2
       /\ vregLocalId = <<>>
       /\ vregPhysId = <<>>
       /\ liveness = [i \in 1 .. Len(ns) |-> {}]
       /\ pc = "removeUnreachableCode"
       /\ result = kErrorOk
       /\ cursor = 1
       /\ lastError = kErrorOk
       /\ hasLogger = FALSE
       /\ started = <<"fetch">>
       /\ returned = <<kErrorOk>>
       /\ attached = {}
       /\ lpc = "Idle"
       /\ node = NULL
       /\ from = NULL
       /\ bCur = {}
       /\ ltCur = <<>>
       /\ ltUnused = 0
       /\ retPtr = 0
       /\ ResetCells

SpecSweep == InitSweep /\ [][RemoveUnreachableCode]_vars

\* livenessAnalysis() runs to its return: the code is sequential, so a step
\* that can be taken is taken.
SpecLiveFair == SpecLive /\ WF_vars(LivenessStep)

\* The cell store alone, from reset() on.
CellStep ==
  \/ _newVarCell
  \/ _newStackCell
  \/ resolveCellOffsets

SpecCells == Init /\ [][CellStep]_vars

\* The variable-cell list after _newVarCell was given registers of these
\* sizes in turn, none of them a stack register: the newest cell is the head.
VarCellsOf(sizes) ==
  [i \in 1 .. Len(sizes) |->
     LET k == Len(sizes) + 1 - i
     IN [id |-> k, size |-> sizes[k], alignment |-> sizes[k], offset |-> 0]]

\* The orders in which three 4-byte and two 1-byte registers are given cells.
ThreeFoursTwoOnes ==
  {s \in [1 .. 5 -> {1, 4}] : Cardinality({i \in 1 .. 5 : s[i] = 4}) = 3}

\* The context after reset() and five successful _newVarCell calls, for
\* three 4-byte and two 1-byte registers in any order.
InitFiveVarCells ==
  /\ \E sizes \in ThreeFoursTwoOnes :
       /\ memVarCells = VarCellsOf(sizes)
       /\ memVarsUsed = [sz \in VarSizes |-> Cardinality({i \in 1 .. 5 : sizes[i] = sz})]
  /\ memVarTotal = 14
  /\ memMaxAlign = 4
  /\ vregMemCell = <<1, 2, 3, 4, 5>>
  /\ zoneCells = 5
  /\ memStackCells = <<>>
  /\ memStackCellsUsed = 0
  /\ memStackTotal = 0
  /\ memAllTotal = 0
  /\ resolved = FALSE
  /\ stackRequests = <<>>
  /\ pc = "idle"
  /\ result = kErrorOk
  /\ cursor = 1
  /\ lastError = kErrorOk
  /\ hasLogger = FALSE
  /\ started = <<>>
  /\ returned = <<>>
  /\ nodes = <<>>
  /\ prev = <<>>
  /\ next = <<>>
  /\ hasWorkData = {}
  /\ labelFrom = <<>>
  /\ jumpNext = <<>>
  /\ numRefs = <<>>
  /\ stop = NULL
  /\ unreachableList = <<>>
  /\ returningList = <<>>
  /\ vdLength = 0
  /\ extraBlock = NULL
  /\ vregLocalId = <<>>
  /\ vregPhysId = <<>>
  /\ liveness = <<>>
  /\ attached = {}
  /\ lpc = "Idle"
  /\ node = NULL
  /\ from = NULL
  /\ bCur = {}
  /\ ltCur = <<>>
  /\ ltUnused = 0
  /\ retPtr = 0

\* The cells of registers alone: from reset() on, and from the five cells.
VarCellStep ==
  \/ _newVarCell
  \/ resolveCellOffsets

SpecVarCells == (Init \/ InitFiveVarCells) /\ [][VarCellStep]_vars

\* Lines 566-578: cleanup().
cleanup ==
  /\ vregLocalId' = [i \in DOMAIN vregLocalId |->
                       IF i <= vdLength THEN kInvalidValue ELSE vregLocalId[i]]
  /\ vregPhysId' = [i \in DOMAIN vregPhysId |->
                      IF i <= vdLength THEN kInvalidValue ELSE vregPhysId[i]]
  /\ vdLength' = 0
  /\ extraBlock' = NULL
  /\ UNCHANGED <<nodes, hasWorkData, stop, unreachableList, returningList>>
  /\ UNCHANGED <<driverVars, listVars, liveVars, cellVars>>

\* reset() that leaves the size-class counters as they are.
resetKeepsCounters ==
  /\ zoneCells' = 0
  /\ stop' = NULL
  /\ extraBlock' = NULL
  /\ unreachableList' = <<>>
  /\ returningList' = <<>>
  /\ vdLength' = 0
  /\ memVarCells' = <<>>
  /\ memStackCells' = <<>>
  /\ memVarsUsed' = memVarsUsed
  /\ memStackCellsUsed' = 0
  /\ memMaxAlign' = 0
  /\ memVarTotal' = 0
  /\ memStackTotal' = 0
  /\ memAllTotal' = 0
  /\ resolved' = FALSE
  /\ stackRequests' = <<>>
  /\ UNCHANGED <<nodes, hasWorkData, vregLocalId, vregPhysId, vregMemCell>>
  /\ UNCHANGED <<driverVars, listVars, liveVars>>

\* Lines 42-75: reset().  The arena is reset, so the cells are gone and the
\* next cell is the arena's first again; the registers belong to the
\* compiler and are not touched.
reset ==
  /\ zoneCells' = 0
  /\ stop' = NULL
  /\ extraBlock' = NULL
  /\ unreachableList' = <<>>
  /\ returningList' = <<>>
  /\ vdLength' = 0
  /\ memVarCells' = <<>>
  /\ memStackCells' = <<>>
  /\ memVarsUsed' = [sz \in VarSizes |-> 0]
  /\ memStackCellsUsed' = 0
  /\ memMaxAlign' = 0
  /\ memVarTotal' = 0
  /\ memStackTotal' = 0
  /\ memAllTotal' = 0
  /\ resolved' = FALSE
  /\ stackRequests' = <<>>
  /\ UNCHANGED <<nodes, hasWorkData, vregLocalId, vregPhysId, vregMemCell>>
  /\ UNCHANGED <<driverVars, listVars, liveVars>>

\* The physical register translate() leaves in a register of the function.
PhysIds == {kInvalidValue, 0}

\* The context while translate() makes the cells of a function: fetch() has
\* filled the register table, no cell is made yet.
InitCells ==
  /\ \E nv \in 0 .. MaxVregs :
     \E phys \in [1 .. nv -> PhysIds] :
          /\ vdLength = nv
          /\ vregLocalId = [i \in 1 .. nv |-> i - 1]
          /\ vregPhysId = phys
  /\ extraBlock = func + 1
  /\ pc = "idle"
  /\ result = kErrorOk
  /\ cursor = 1
  /\ lastError = kErrorOk
  /\ hasLogger = FALSE
  /\ started = <<>>
  /\ returned = <<>>
  /\ nodes = <<>>
  /\ prev = <<>>
  /\ next = <<>>
  /\ hasWorkData = {}
  /\ labelFrom = <<>>
  /\ jumpNext = <<>>
  /\ numRefs = <<>>
  /\ stop = NULL
  /\ unreachableList = <<>>
  /\ returningList = <<>>
  /\ liveness = <<>>
  /\ attached = {}
  /\ lpc = "Idle"
  /\ node = NULL
  /\ from = NULL
  /\ bCur = {}
  /\ ltCur = <<>>
  /\ ltUnused = 0
  /\ retPtr = 0
  /\ ResetCells

\* The life of a context: the registers of the table are given their cells
\* (each once, in table order), stack cells are made, cleanup() is called
\* and, after it, reset().
Lifecycle ==
  \/ Len(vregMemCell) < vdLength /\ _newVarCell
  \/ _newStackCell
  \/ extraBlock # NULL /\ cleanup
  \/ extraBlock = NULL /\ vdLength = 0 /\ zoneCells > 0 /\ reset

SpecLifecycle == InitCells /\ [][Lifecycle]_vars

(* ------------------- livenessAnalysis: what is claimed ----------------- *)
\* livenessAnalysis() has returned kErrorOk to compile().
LivenessOk == lpc = "Returned" /\ Len(returned) >= 3 /\ returned[3] = kErrorOk

\* The registers of tied array t.
TiedVregs(t) == {t[i].vreg : i \in 1 .. Len(t)}

\* The last entry of register v in tied array t.
LastEntry(t, v) ==
  CHOOSE i \in 1 .. Len(t) : t[i].vreg = v /\ \A j \in i + 1 .. Len(t) : t[j].vreg # v

\* The vregs node n reads and writes, by the flags of its tied array.
Reads(n) ==
  {nodes[n].tied[i].vreg : i \in {j \in 1 .. Len(nodes[n].tied) : "kRAll" \in nodes[n].tied[j].flags}}
Writes(n) ==
  {nodes[n].tied[i].vreg : i \in {j \in 1 .. Len(nodes[n].tied) : "kWAll" \in nodes[n].tied[j].flags}}

\* The vregs node n only writes, as the Visit loop decides it: each entry is
\* tested by itself, in array order (line 386), so the last entry of a vreg
\* decides, whatever the earlier entries of the same vreg did.
WritesOnly(n) ==
  LET t == nodes[n].tied
  IN {v \in TiedVregs(t) : IsWriteOnly(t[LastEntry(t, v)].flags)}

\* The jumps of a label's chain from jump j on.
RECURSIVE ChainFrom(_)
ChainFrom(j) == IF j = NULL THEN {} ELSE {j} \cup ChainFrom(jumpNext[j])

\* The labels that have a liveness.
AnalysedLabels == {l \in attached : nodes[l].type = "Label"}

\* The control-flow edges between analysed nodes: textual fallthrough from a
\* node that is no unconditional jump, and each jump of a label's chain.
FallEdges ==
  {<<prev[v], v>> : v \in {x \in attached : prev[x] \in attached /\ ~nodes[prev[x]].isJmp}}
JumpEdges ==
  UNION {{<<j, l>> : j \in ChainFrom(labelFrom[l]) \cap attached} : l \in AnalysedLabels}
Edges == FallEdges \cup JumpEdges

\* The fetched nodes control can flow to from n, and the nodes a returning
\* node can be reached from.
Succ(n) == Successors(nodes, n) \cap hasWorkData
RECURSIVE CoReachF(_)
CoReachF(S) ==
  LET T == S \cup {n \in hasWorkData : Succ(n) \cap S # {}}
  IN IF T = S THEN S ELSE CoReachF(T)
CoReach == CoReachF(Returning(nodes))

\* The least fixed point of live-in[n] = (live-out[n] minus the vregs n only
\* writes) united with the vregs n reads, over the nodes D.
RECURSIVE Lfp(_, _)
Lfp(f, D) ==
  LET g == [n \in D |-> Reads(n) \cup ((UNION {f[m] : m \in Succ(n) \cap D}) \ WritesOnly(n))]
  IN IF g = f THEN f ELSE Lfp(g, D)
LiveIn == Lfp([n \in hasWorkData |-> {}], hasWorkData)

\* C1 as stated: after livenessAnalysis returned Ok, for every edge u -> v
\* between analysed nodes, liveness(v) is within liveness(u) united with the
\* vregs u defines, and the vregs u reads are in liveness(u).  The two-jump
\* function, which writes no vreg, breaks it when the chain of L is
\* <<jcc L, jmp L>>: jcc L is patched while liveness(L) is still empty, the
\* chain cursor moves on to jmp L, and the walk back from jmp L through the
\* use of v adds v to liveness(L) after the cursor has passed jcc L, which
\* is never patched again.
C1_EdgesAsStated ==
  LivenessOk =>
    \A e \in Edges :
      /\ liveness[e[2]] \subseteq liveness[e[1]] \cup Writes(e[1])
      /\ Reads(e[1]) \subseteq liveness[e[1]]

\* C2 as stated: after livenessAnalysis returned Ok, the liveness stored at
\* a node equals the least fixed point of live-in at that node: no vreg
\* more, none less.
C2_ExactLiveIn ==
  LivenessOk => \A n \in attached : liveness[n] = LiveIn[n]

\* C3 as stated: after livenessAnalysis returned Ok, every node that has
\* work-data has a liveness.
C3_AllAttachedAsStated ==
  LivenessOk => attached = hasWorkData

\* C3 amended: after livenessAnalysis returned Ok for a function with at
\* least one virtual register, the nodes that have a liveness are the nodes
\* with work-data from which a returning node can be reached; for a function
\* without virtual registers no node has one.
C3_Attached ==
  LivenessOk => attached = IF vdLength = 0 THEN {} ELSE CoReach

\* A function with a virtual register was analysed, and a node of it that
\* has work-data cannot reach a returning node.
C3_Witness ==
  /\ LivenessOk
  /\ vdLength > 0
  /\ attached # {}
  /\ hasWorkData \ CoReach # {}

\* C4: livenessAnalysis() terminates: it eventually returns (kErrorOk or
\* kErrorNoHeapMemory), whatever the labels, chains and returning list.
C4_Terminates == <>(lpc = "Returned")

\* livenessAnalysis() returned kErrorOk on a function with two nested loops
\* (two labels, each the target of a later jump).
C4_Witness ==
  /\ LivenessOk
  /\ vdLength > 0
  /\ \E l1, l2 \in AnalysedLabels :
       /\ l1 < l2
       /\ \E j1 \in ChainFrom(labelFrom[l1]), j2 \in ChainFrom(labelFrom[l2]) :
            l2 < j2 /\ j2 < j1 /\ {j1, j2} \subseteq attached

(* ----------------------- the cells: what is claimed -------------------- *)
\* All the cells, variable and stack.
AllCells ==
  {memVarCells[i] : i \in 1 .. Len(memVarCells)}
    \cup {memStackCells[i] : i \in 1 .. Len(memStackCells)}

\* The bytes [offset, offset + size) of cell c.
Range(c) == c.offset .. (c.offset + c.size - 1)

RECURSIVE SumSizes(_)
SumSizes(cells) == IF cells = <<>> THEN 0 ELSE Head(cells).size + SumSizes(Tail(cells))

PowersOfTwo == {1, 2, 4, 8, 16, 32, 64}

\* C5 as stated: after resolveCellOffsets, every cell offset is nonnegative,
\* every cell's offset is a multiple of its alignment, and the ranges of two
\* distinct cells are disjoint.
C5_Layout ==
  resolved =>
    /\ \A c \in AllCells : c.offset >= 0 /\ c.offset % c.alignment = 0
    /\ \A c, d \in AllCells : c.id # d.id => Range(c) \cap Range(d) = {}

\* C6: after resolveCellOffsets, _memAllTotal is at least the sum of the
\* sizes of all cells, what it has more is the number of bytes of
\* [0, _memAllTotal) that belong to no cell, and every cell's range lies
\* within [0, _memAllTotal).
C6_Total ==
  resolved =>
    LET sum == SumSizes(memVarCells) + SumSizes(memStackCells)
        all == 0 .. (memAllTotal - 1)
        used == UNION {Range(c) : c \in AllCells}
    IN /\ memAllTotal >= sum
       /\ memAllTotal - sum = Cardinality(all \ used)
       /\ \A c \in AllCells : Range(c) \subseteq all

\* The offsets were resolved for variable cells and stack cells together.
C6_Witness ==
  /\ resolved
  /\ memVarCells # <<>>
  /\ Len(memStackCells) >= 2
  /\ memAllTotal > 0

\* Whether cell a is strictly greater than cell c: by alignment, then size.
Greater(a, c) ==
  a.alignment > c.alignment \/ (a.alignment = c.alignment /\ a.size > c.size)

\* The place in the stack-cell list of the cell that was made last.
Newest ==
  CHOOSE k \in 1 .. Len(memStackCells) :
    \A i \in 1 .. Len(memStackCells) : memStackCells[i].id <= memStackCells[k].id

\* C7: the stack-cell list is sorted by alignment descending and, among
\* equal alignments, by size descending; the cell made last stands before
\* the first older cell that is not strictly greater than it; and the two
\* cells (4,4) and (16,16) alone are listed 16/16 first and resolve to
\* offsets 0 and 16 with _memAllTotal 20.
C7_Sorted ==
  /\ \A i, j \in 1 .. Len(memStackCells) :
       i < j => ~Greater(memStackCells[j], memStackCells[i])
  /\ memStackCells # <<>> =>
       /\ \A i \in 1 .. Newest - 1 : Greater(memStackCells[i], memStackCells[Newest])
       /\ Newest < Len(memStackCells) =>
            ~Greater(memStackCells[Newest + 1], memStackCells[Newest])
  /\ (/\ resolved
      /\ memVarCells = <<>>
      /\ {<<r.size, r.alignment>> : r \in {stackRequests[i] : i \in 1 .. Len(stackRequests)}}
           = {<<4, 4>>, <<16, 16>>}
      /\ Len(stackRequests) = 2)
       => /\ memStackCells[1].size = 16 /\ memStackCells[1].offset = 0
          /\ memStackCells[2].size = 4 /\ memStackCells[2].offset = 16
          /\ memAllTotal = 20

\* The cells (4,4) and (16,16) were made in this order and resolved.
C7_Witness ==
  /\ resolved
  /\ memVarCells = <<>>
  /\ Len(stackRequests) = 2
  /\ stackRequests[1].size = 4 /\ stackRequests[1].alignment = 4
  /\ stackRequests[2].size = 16 /\ stackRequests[2].alignment = 16

\* The stack cell made for request r.
CellOf(r) == CHOOSE c \in AllCells : c.id = r.id

\* C8: a stack cell has an alignment that is a power of two not above 64 and
\* a size that is a multiple of it: alignment 0 becomes the smallest power of
\* two >= size, clamped to 64; an alignment above 64 becomes 64; the size is
\* rounded up to the next multiple of the alignment (size 7 with alignment 0
\* gives alignment 8, size 8 and, alone, _memAllTotal 8).
C8_StackCell ==
  \A i \in 1 .. Len(stackRequests) :
    LET r == stackRequests[i]
        c == CellOf(r)
        least == CHOOSE p \in PowersOfTwo :
                   /\ p >= r.size \/ p = 64
                   /\ \A q \in PowersOfTwo : (q >= r.size \/ q = 64) => p <= q
    IN /\ c.alignment \in PowersOfTwo
       /\ c.size % c.alignment = 0
       /\ r.alignment = 0 => c.alignment = least
       /\ r.alignment > 64 => c.alignment = 64
       /\ r.alignment \in PowersOfTwo => c.alignment = r.alignment
       /\ c.size >= r.size /\ c.size - r.size < c.alignment
       /\ (r.size = 7 /\ r.alignment = 0) =>
            /\ c.alignment = 8 /\ c.size = 8
            /\ (resolved /\ Cardinality(AllCells) = 1) => memAllTotal = 8

\* The single cell asked with size 7 and alignment 0 was made and resolved.
C8_Witness ==
  /\ resolved
  /\ Cardinality(AllCells) = 1
  /\ Len(stackRequests) = 1
  /\ stackRequests[1].size = 7 /\ stackRequests[1].alignment = 0

(* ---------------------- compile(): what is claimed --------------------- *)
\* The phases in the order claimed, and the place of a phase in it.
PhaseOrder == <<"fetch", "removeUnreachableCode", "livenessAnalysis", "annotate", "translate">>
Rank(phase) == CHOOSE k \in 1 .. Len(PhaseOrder) : PhaseOrder[k] = phase

\* The phase started as the i-th has returned err.
Returned(i, err) == Len(returned) >= i /\ returned[i] = err

\* C9: in every execution of compile() the phases run at most once each and
\* in the order fetch, removeUnreachableCode, livenessAnalysis, annotate
\* (only when a logger is attached), translate; none but annotate is left
\* out; a phase starts only after the previous one returned Ok; and the
\* cursor is cleared only after translate returned Ok.
C9_PhaseOrder ==
  /\ \A i, j \in 1 .. Len(started) : i < j => Rank(started[i]) < Rank(started[j])
  /\ started # <<>> => started[1] = "fetch"
  /\ \A i \in 2 .. Len(started) :
       /\ Returned(i - 1, kErrorOk)
       /\ \/ Rank(started[i]) = Rank(started[i - 1]) + 1
          \/ /\ started[i - 1] = "livenessAnalysis"
             /\ started[i] = "translate"
             /\ ~hasLogger
       /\ started[i] = "annotate" => hasLogger
  /\ cursor = NULL =>
       /\ started # <<>>
       /\ started[Len(started)] = "translate"
       /\ Returned(Len(started), kErrorOk)

\* compile() ran all five phases, cleared the cursor and returned.
C9_Witness ==
  /\ pc = "returned"
  /\ started = PhaseOrder
  /\ cursor = NULL
  /\ result = kErrorOk

\* C10: when fetch() or translate() returns an error, compile() returns that
\* very code; when fetch() fails the node list is as it was, no node has a
\* liveness and no other phase is called; and whenever a phase failed the
\* cursor is as compile() found it.
C10_Errors ==
  /\ \A i \in 1 .. Len(returned) :
       returned[i] # kErrorOk =>
         /\ started[i] \in {"fetch", "translate"} => pc = "returned" /\ result = returned[i]
         /\ cursor = 1
  /\ (returned # <<>> /\ returned[1] # kErrorOk) =>
       /\ started = <<"fetch">>
       /\ prev = [i \in 1 .. Len(nodes) |-> i - 1]
       /\ next = [i \in 1 .. Len(nodes) |-> IF i = Len(nodes) THEN NULL ELSE i + 1]
       /\ attached = {}

\* translate() failed with the back-end's code after fetch, the sweep, the
\* liveness analysis and annotate succeeded, and compile() returned.
C10_Witness ==
  /\ pc = "returned"
  /\ started = PhaseOrder
  /\ returned[5] = kErrorBackend
  /\ attached # {}

(* --------------------- allocation failure: what is claimed ------------- *)
\* compile() on an empty cell store, or the cell store while compile() has
\* not been called: the two never run together in this specification.
DriverOrCells ==
  \/ memVarCells = <<>> /\ memStackCells = <<>> /\ ~resolved /\ Next
  \/ pc = "idle" /\ CellStep

SpecDriverOrCells == Init /\ [][DriverOrCells]_vars

\* livenessAnalysis() returns kErrorNoHeapMemory in this step.
LivenessFails ==
  /\ lpc # "Returned"
  /\ lpc' = "Returned"
  /\ returned' = Append(returned, kErrorNoHeapMemory)

\* A cell constructor finds no memory in this step.
CellFails ==
  /\ pc = "idle" /\ pc' = "idle"
  /\ lastError # kErrorNoHeapMemory
  /\ lastError' = kErrorNoHeapMemory

\* C11: when an allocation fails in livenessAnalysis(), lastError becomes
\* NoHeapMemory, the analysis returns NoHeapMemory at once, compile() returns
\* it without calling annotate() or translate(), and the liveness sets
\* attached before stay as they are; when a cell constructor finds no
\* memory, lastError becomes NoHeapMemory and the cell lists, counters,
\* totals and the vregs' _memCell stay as they are.
C11_NoHeapMemory ==
  [][/\ (LivenessFails =>
          /\ lastError' = kErrorNoHeapMemory
          /\ pc' = "returned"
          /\ result' = kErrorNoHeapMemory
          /\ started' = <<"fetch", "removeUnreachableCode", "livenessAnalysis">>
          /\ attached' = attached
          /\ liveness' = liveness
          /\ UNCHANGED <<listVars, cursor>>)
     /\ ((pc = "returned" /\ Returned(3, kErrorNoHeapMemory)) => UNCHANGED vars)
     /\ (CellFails =>
          UNCHANGED <<memVarCells, memStackCells, memVarsUsed, memStackCellsUsed,
                      memMaxAlign, memVarTotal, memStackTotal, memAllTotal,
                      vregMemCell, zoneCells>>)]_vars

\* livenessAnalysis() found no memory after it had attached a liveness to
\* some node, and compile() returned.
C11_Witness ==
  /\ pc = "returned"
  /\ Returned(3, kErrorNoHeapMemory)
  /\ attached # {}
  /\ result = kErrorNoHeapMemory

(* ------------------- the unreachable-code sweep: claims ---------------- *)
\* The compiler's node list as a record.
ListNow ==
  [prev |-> prev, next |-> next, labelFrom |-> labelFrom,
   jumpNext |-> jumpNext, numRefs |-> numRefs]

\* The node list once the first k seeds have been processed.
AfterSeeds(k) ==
  SweepFrom(nodes, ListNow, hasWorkData, SubSeq(unreachableList, 1, k), stop, 1)

\* Node n is linked in list L.
InList(L, n) == n = func \/ L.prev[n] # NULL

\* The nodes without work-data in a row from n on, up to stop.
RECURSIVE RunOf(_, _)
RunOf(L, n) ==
  IF n = NULL \/ n = stop \/ n \in hasWorkData THEN <<>>
  ELSE <<n>> \o RunOf(L, L.next[n])

\* The seed is one the sweep processes in list L.
ValidSeed(L, s) == s # NULL /\ s # stop /\ L.prev[s] # NULL

\* The position of the first label in run r (past the end when none).
FirstLabel(r) ==
  IF \E i \in 1 .. Len(r) : nodes[r[i]].type = "Label"
  THEN CHOOSE i \in 1 .. Len(r) :
         /\ nodes[r[i]].type = "Label"
         /\ \A j \in 1 .. i - 1 : nodes[r[j]].type # "Label"
  ELSE Len(r) + 1

\* Processing the k-th seed follows the rule of the sweep.
SeedRule(k) ==
  LET L0 == AfterSeeds(k - 1)
      L1 == AfterSeeds(k)
      s == unreachableList[k]
      r == RunOf(L0, s)
      fl == FirstLabel(r)
  IN ValidSeed(L0, s) =>
       \A i \in 1 .. Len(r) :
          IF i < fl THEN ~InList(L1, r[i])
          ELSE ~InList(L1, r[i]) <=> nodes[r[i]].removable

\* C12: when removeUnreachableCode() processes a seed, in the run of nodes
\* without work-data starting at the seed, every node before the run's first
\* label is removed whatever its removable flag, and from the first label on
\* a node is removed if and only if it is removable.
C12_SweepRule ==
  [][pc = "removeUnreachableCode" =>
       /\ \A k \in 1 .. Len(unreachableList) : SeedRule(k)
       /\ AfterSeeds(Len(unreachableList)).prev = prev'
       /\ AfterSeeds(Len(unreachableList)).next = next']_vars

\* The sweep has run on one seed whose run has a non-removable node before
\* its first label (removed) and, after the label, a non-removable node
\* (kept) and a removable one (removed).
C12_Witness ==
  /\ pc = "livenessAnalysis"
  /\ Len(unreachableList) = 1
  /\ \E a, l, c, d \in 2 .. stop - 2 :
       /\ a < l /\ l < c /\ l < d
       /\ unreachableList[1] = a
       /\ {a, l, c, d} \cap hasWorkData = {}
       /\ nodes[a].type = "Align" /\ ~InList(ListNow, a)
       /\ nodes[l].type = "Label" /\ InList(ListNow, l)
       /\ nodes[c].type = "Align" /\ InList(ListNow, c)
       /\ nodes[d].removable /\ ~InList(ListNow, d)

\* The function `ret; add v2,v3; L2: nop` after the sweep: the ret is
\* fetched, the three nodes after it are not, and the seed is the add.
UnreachableTail ==
  /\ pc = "livenessAnalysis"
  /\ stop = 7
  /\ nodes[2] = RetNode /\ nodes[3] = InstNode(<<>>)
  /\ nodes[4] = LabelNode /\ nodes[5] = InstNode(<<>>)
  /\ 2 \in hasWorkData
  /\ {3, 4, 5} \cap hasWorkData = {}
  /\ unreachableList = <<3>>

\* C13 as stated: the add is removed, the label L2 and the nop after it are
\* both still in the node list.
C13_NopSurvivesAsStated ==
  UnreachableTail => ~InList(ListNow, 3) /\ InList(ListNow, 4) /\ InList(ListNow, 5)

\* C13: for the unreachable tail `ret; add v2,v3; L2: nop` with the seed at
\* the add, after removeUnreachableCode() the add and the nop (a removable
\* instruction without work-data) are removed and the label L2 is still in
\* the node list.
C13_Tail ==
  UnreachableTail => ~InList(ListNow, 3) /\ InList(ListNow, 4) /\ ~InList(ListNow, 5)

\* The sweep has run on the unreachable tail and the ret is followed by L2.
C13_Witness == UnreachableTail /\ next[2] = 4 /\ prev[4] = 2

\* The nodes met from n on following f, in order.
RECURSIVE Walk(_, _)
Walk(f, n) == IF n = NULL THEN <<>> ELSE <<n>> \o Walk(f, f[n])

\* C14: whatever the seed list (overlapping runs, duplicates, seeds an
\* earlier run removed), removeUnreachableCode() removes no node that has
\* work-data, neither stop nor a node after it, does nothing for a seed
\* that is null, has no predecessor or is stop, and the nodes it leaves are
\* linked in the order they were in.
C14_SweepFrame ==
  [][pc = "removeUnreachableCode" =>
       LET after == [prev |-> prev', next |-> next']
           kept == {n \in 1 .. Len(nodes) : InList(after, n)}
       IN /\ \A n \in hasWorkData : InList(ListNow, n) => n \in kept
          /\ \A n \in stop .. Len(nodes) : n \in kept
          /\ \A k \in 1 .. Len(unreachableList) :
               ~ValidSeed(AfterSeeds(k - 1), unreachableList[k])
                  => AfterSeeds(k) = AfterSeeds(k - 1)
          /\ (\A k \in 1 .. Len(unreachableList) :
                 ~ValidSeed(ListNow, unreachableList[k]))
                => UNCHANGED listVars
          /\ after = [prev |-> AfterSeeds(Len(unreachableList)).prev,
                      next |-> AfterSeeds(Len(unreachableList)).next]
          /\ Walk(next', func) = SortedSeq(kept)
          /\ \A n \in kept \ {func} : next'[prev'[n]] = n
          /\ \A n \in 1 .. Len(nodes) : n \notin kept => next'[n] = NULL]_vars

\* The sweep has run on two seeds of one run, the second removed by the run
\* of the first, and a later node with work-data, stop and the node after
\* it are still linked.
C14_Witness ==
  /\ pc = "livenessAnalysis"
  /\ Len(unreachableList) = 2
  /\ \E a, b, w \in 2 .. stop - 1 :
       /\ a < b /\ b < w
       /\ unreachableList = <<a, b>>
       /\ (a .. b) \cap hasWorkData = {}
       /\ \A n \in a .. b : nodes[n].type # "Label"
       /\ ~InList(ListNow, a) /\ ~InList(ListNow, b)
       /\ w \in hasWorkData /\ InList(ListNow, w)
       /\ InList(ListNow, stop) /\ InList(ListNow, stop + 1)

(* ------------------------ cleanup() and reset() ------------------------ *)
\* cleanup() has run and the context has not been given a function since.
Cleaned == extraBlock = NULL /\ vdLength = 0

\* The registers whose _memCell is not null.
WithMemCell == {i \in 1 .. Len(vregMemCell) : vregMemCell[i] # NULL}

\* C15: after cleanup(), every register that was in the table has its
\* localId, physId and _memCell reset, the table is empty and _extraBlock is
\* null; after cleanup() and reset() no register refers to a cell of the
\* finished function.
C15_CleanupResetsMemCell ==
  Cleaned =>
    /\ \A i \in DOMAIN vregLocalId : vregLocalId[i] = kInvalidValue
    /\ \A i \in DOMAIN vregPhysId : vregPhysId[i] = kInvalidValue
    /\ WithMemCell = {}

(* ----------------------- write-only registers -------------------------- *)
\* The analysed function is `def v; use v; ret`.
IsDefUse(v) ==
  /\ Len(nodes) = 6
  /\ nodes[2] = InstNode(<<[vreg |-> v, flags |-> {"kWAll"}]>>)
  /\ nodes[3] = InstNode(<<[vreg |-> v, flags |-> {"kRAll"}]>>)
  /\ nodes[4] = RetNode

\* The analysed function is the loop `L: use v; jcc L; def v; ret`.
IsLoop(v) == nodes = LoopFunction(v)

\* C16 as stated: after livenessAnalysis, a vreg a node only writes and that
\* is not live at the node's entry is absent from the liveness recorded at
\* the node; in `def v; use v; ret` the def has the empty set and the use
\* {v}; in the loop, L, the use and the jcc have v and the def has not.
C16_WriteOnlyAbsentAsStated ==
  LivenessOk =>
    /\ \A n \in attached : (WritesOnly(n) \ LiveIn[n]) \cap liveness[n] = {}
    /\ \A v \in 0 .. vdLength - 1 :
         /\ IsDefUse(v) => liveness[2] = {} /\ liveness[3] = {v}
         /\ IsLoop(v) => /\ v \in liveness[2] /\ v \in liveness[3] /\ v \in liveness[4]
                         /\ v \notin liveness[5]

\* C16: after livenessAnalysis, a vreg a node only writes is in the liveness
\* recorded at that node, live afterwards or not; in `def v; use v; ret` the
\* def and the use both have {v} and the function node has the empty set;
\* in the loop, L, the use, the jcc and the def all have v and the ret has
\* not.
C16_WriteOnlyRecorded ==
  LivenessOk =>
    /\ \A n \in attached : WritesOnly(n) \subseteq liveness[n]
    /\ \A v \in 0 .. vdLength - 1 :
         /\ IsDefUse(v) => liveness[2] = {v} /\ liveness[3] = {v} /\ liveness[1] = {}
         /\ IsLoop(v) => /\ v \in liveness[2] /\ v \in liveness[3] /\ v \in liveness[4]
                         /\ v \in liveness[5]
                         /\ v \notin liveness[6]

\* The analysis of the loop function returned Ok with a liveness on each of
\* its nodes.
C16_Witness ==
  /\ LivenessOk
  /\ \E v \in 0 .. vdLength - 1 : IsLoop(v)
  /\ 2 .. 6 \subseteq attached

(* ------------- three 4-byte and two 1-byte variable cells -------------- *)
\* resolveCellOffsets() ran on exactly three 4-byte and two 1-byte variable
\* cells and no stack cell.
FiveCellsResolved ==
  /\ resolved
  /\ Len(memVarCells) = 5
  /\ memStackCells = <<>>
  /\ memVarsUsed = [sz \in VarSizes |-> IF sz = 4 THEN 3 ELSE IF sz = 1 THEN 2 ELSE 0]

\* The offsets of the variable cells of size sz.
OffsetsOf(sz) == {c.offset : c \in {d \in AllCells : d.size = sz}}

\* C17 as stated: the region bases are p4 = 0, p2 = 0 and p1 = 12,
\* _memAllTotal is 14, the 4-byte cells are at 0, 4, 8 and the 1-byte cells
\* at 12, 13.
C17_BasesAsStated ==
  FiveCellsResolved =>
    /\ RegionBases(memVarsUsed)[4] = 0
    /\ RegionBases(memVarsUsed)[2] = 0
    /\ RegionBases(memVarsUsed)[1] = 12
    /\ memAllTotal = 14
    /\ OffsetsOf(4) = {0, 4, 8}
    /\ OffsetsOf(1) = {12, 13}

\* C17: for exactly three 4-byte and two 1-byte variable cells and no stack
\* cell, resolveCellOffsets() uses the region bases p4 = 0, p2 = 12 and
\* p1 = 12 and sets _memAllTotal = 14, the 4-byte cells at 0, 4, 8 and the
\* 1-byte cells at 12, 13.
C17_Bases ==
  FiveCellsResolved =>
    /\ RegionBases(memVarsUsed)[4] = 0
    /\ RegionBases(memVarsUsed)[2] = 12
    /\ RegionBases(memVarsUsed)[1] = 12
    /\ memAllTotal = 14
    /\ OffsetsOf(4) = {0, 4, 8}
    /\ OffsetsOf(1) = {12, 13}

\* The five cells are resolved, a 1-byte cell made before a 4-byte one.
C17_Witness ==
  /\ FiveCellsResolved
  /\ \E c, d \in AllCells : c.size = 1 /\ d.size = 4 /\ c.id < d.id

(* --------------------- liveness sets only grow ------------------------- *)
\* C18: during livenessAnalysis a node that has a liveness keeps it, no bit
\* of it is ever cleared by a later step, and a Patch step that goes on to
\* the predecessor (or to the label's targets) has strictly enlarged the
\* liveness of the node it patched.
C18_OnlyGrow ==
  [][/\ attached \subseteq attached'
     /\ \A n \in attached : liveness[n] \subseteq liveness'[n]
     /\ (lpc = "Patch" /\ lpc' \in {"Patch", "Target"}) =>
          /\ liveness[node] \subseteq liveness'[node]
          /\ liveness[node] # liveness'[node]
     /\ (lpc = "Patch" /\ lpc' = "Patch") => node' = prev[node]]_vars

\* In the loop function the jcc, first visited with nothing live, has been
\* patched with v and the Patch loop has gone on to the use before it.
C18_Witness ==
  \E v \in 0 .. vdLength - 1 :
    /\ IsLoop(v)
    /\ lpc = "Patch"
    /\ node = 3
    /\ liveness[4] = {v}
    /\ bCur = {v}

(* ------------------------- the first visit ----------------------------- *)
\* The entry only writes: kWAll without kRAll.
OnlyWrites(e) == "kWAll" \in e.flags /\ "kRAll" \notin e.flags

\* C19: the first visit of a node with incoming propagating set B stores B
\* united with every tied register of the node as its liveness, and hands
\* on B with, for each tied register, the bit cleared when the register's
\* last entry is write-only and set when it is not (read-only, read/write
\* or neither flag).
C19_FirstVisit ==
  [][(lpc = "Visit" /\ node \notin attached /\ node \in attached') =>
       LET t == nodes[node].tied
       IN /\ liveness'[node] = bCur \cup TiedVregs(t)
          /\ bCur' = (bCur \ TiedVregs(t))
                       \cup {v \in TiedVregs(t) : ~OnlyWrites(t[LastEntry(t, v)])}]_vars

\* A node was visited whose tied array has a register first write-only and
\* later with neither flag (it is handed on live) and a write-only register
\* that was live after the node (it is not handed on).
C19_Witness ==
  /\ 2 \in attached
  /\ lpc = "Visit" /\ node = 1
  /\ \E i, j, k \in 1 .. Len(nodes[2].tied) :
       LET t == nodes[2].tied
       IN /\ i < j /\ t[i].vreg = 0 /\ t[j].vreg = 0
          /\ t[i].flags = {"kWAll"} /\ t[j].flags = {}
          /\ t[k].vreg = 1 /\ t[k].flags = {"kWAll"}
  /\ liveness[3] = {1}
  /\ liveness[2] = {0, 1}
  /\ bCur = {0}

(* -------------------- the bookkeeping of the cells --------------------- *)
\* The largest alignment of a cell, 0 when there is none.
MaxAlignment ==
  IF AllCells = {} THEN 0
  ELSE CHOOSE a \in {c.alignment : c \in AllCells} : \A c \in AllCells : c.alignment <= a

\* The counters and totals agree with the two cell lists.
BookkeepingAgrees ==
  /\ \A sz \in VarSizes :
       memVarsUsed[sz] = Cardinality({i \in 1 .. Len(memVarCells) : memVarCells[i].size = sz})
  /\ \A i \in 1 .. Len(memVarCells) : memVarCells[i].size \in VarSizes
  /\ memVarTotal = SumSizes(memVarCells)
  /\ memStackCellsUsed = Len(memStackCells)
  /\ memStackTotal = SumSizes(memStackCells)
  /\ memMaxAlign = MaxAlignment
  /\ \A i \in 1 .. Len(memVarCells), j \in 1 .. Len(memStackCells) :
       memVarCells[i].id # memStackCells[j].id
  /\ Cardinality({c.id : c \in AllCells}) = Len(memVarCells) + Len(memStackCells)

\* The cell lists are empty and the counters and totals zero.
CellsEmpty ==
  /\ memVarCells = <<>>
  /\ memStackCells = <<>>
  /\ \A sz \in VarSizes : memVarsUsed[sz] = 0
  /\ memStackCellsUsed = 0
  /\ memMaxAlign = 0
  /\ memVarTotal = 0
  /\ memStackTotal = 0
  /\ memAllTotal = 0

\* C20: after any successful _newVarCell and _newStackCell calls since the
\* last reset(), each size-class counter is the number of variable cells of
\* that size, _memVarTotal the sum of their sizes, _memStackCellsUsed the
\* length of the stack-cell list, _memStackTotal the sum of the stack cells'
\* rounded sizes, _memMaxAlign the largest alignment of a cell (0 without
\* cells), no cell is in both lists, and reset() empties the lists and
\* zeroes the counters and totals.
C20_Bookkeeping ==
  /\ []BookkeepingAgrees
  /\ [][(zoneCells > 0 /\ zoneCells' = 0) => CellsEmpty']_vars

\* After a reset() that followed two register cells, a stack cell was made.
C20_Witness ==
  /\ Len(vregMemCell) = 2
  /\ zoneCells = 1
  /\ Len(memStackCells) = 1
  /\ Len(stackRequests) = 1
  /\ memStackTotal > 0

====
